---- MODULE Spec2Model ----
(***************************************************************************)
(* Retrieval engine of the EXECAI platform API:                            *)
(*   src/knowledge/enhanced_knowledge_base.py  (EnhancedKnowledgeBase)     *)
(*   src/app.py                                (query_knowledge handler)   *)
(*                                                                         *)
(* Representation choices.                                                 *)
(*  - A text is the sequence of its words; the analyzer of the TF-IDF      *)
(*    vectorizer (lowercasing, tokens of two or more characters, English   *)
(*    stop-word removal) is the operator Analyze.                          *)
(*  - Weights are exact integers: the smoothed idf ln((1+N)/(1+df))+1 is   *)
(*    kept in eighths (IdfTable), and an L2-normalised row is the pair of  *)
(*    the vector tf*idf and its squared length: the unit vector is         *)
(*    weights / sqrt(norm2).                                               *)
(*  - A similarity score s is kept exactly, as the reduced fraction        *)
(*    <<num, den>> equal to s*s (s is never negative, so the order and the *)
(*    equality of scores are those of their squares).  Floating-point      *)
(*    rounding of the library is not represented.                          *)
(***************************************************************************)
EXTENDS Integers, Sequences, FiniteSets, TLC

(***************************************************************************)
(* Bounds of the exploration.                                              *)
(***************************************************************************)
MaxCorpus == 6
MaxBase == 2
\* the largest corpus that concurrent calls are explored on
MaxShared == 5

(***************************************************************************)
(* Program constants of EnhancedKnowledgeBase.query.                       *)
(***************************************************************************)
TopK == 5
\* the relevance threshold 0.1, as the fraction 1/10
MinScoreNum == 1
MinScoreDen == 10

(***************************************************************************)
(* Small exact arithmetic.                                                 *)
(***************************************************************************)
RECURSIVE GCD(_, _)
GCD(a, b) == IF b = 0 THEN a ELSE GCD(b, a % b)

\* a/b < c/d for a, c >= 0 and b, d > 0, by continued-fraction expansion
\* (no product is formed, so the operands may be large)
RECURSIVE FracLess(_, _, _, _)
FracLess(a, b, c, d) ==
    LET qa == a \div b
        qc == c \div d
        ra == a % b
        rc == c % d
    IN  IF qa # qc THEN qa < qc
        ELSE IF rc = 0 THEN FALSE
        ELSE IF ra = 0 THEN TRUE
        ELSE FracLess(d, rc, b, ra)

\* f[1] + ... + f[n]
RECURSIVE SumTo(_, _)
SumTo(f, n) == IF n = 0 THEN 0 ELSE SumTo(f, n - 1) + f[n]

Reverse(s) == [i \in 1..Len(s) |-> s[Len(s) + 1 - i]]

\* the sequence <<f[1], ..., f[n]>>, tabulated
RECURSIVE Tabulate(_, _)
Tabulate(f, n) == IF n = 0 THEN <<>> ELSE Append(Tabulate(f, n - 1), f[n])

Range(s) == {s[i] : i \in DOMAIN s}

(***************************************************************************)
(* Scores: <<num, den>> stands for the score sqrt(num/den).                *)
(***************************************************************************)
ScoreZero == <<0, 1>>
ScoreOne == <<1, 1>>

\* s < t
ScoreLess(s, t) ==
    IF s = t \/ t[1] = 0 THEN FALSE
    ELSE IF s[1] = 0 THEN TRUE
    ELSE FracLess(s[1], s[2], t[1], t[2])

\* variant: no score is taken to be below the threshold
BelowThresholdNever(s) == FALSE

\* score < 0.1, i.e. score^2 < (1/10)^2
BelowThreshold(s) ==
    FracLess(s[1], s[2], MinScoreNum * MinScoreNum, MinScoreDen * MinScoreDen)

(***************************************************************************)
(* TfidfVectorizer(stop_words='english'): analyzer.                        *)
(***************************************************************************)
Lowercase(w) ==
    CASE w = "Business" -> "business"
      [] w = "Lean" -> "lean"
      [] w = "Canvas" -> "canvas"
      [] OTHER -> w

\* words of fewer than two characters, which the token pattern drops
ShortWords == {"a"}

\* the members of the English stop-word list that occur in the texts used
StopWords == {"the", "is", "of", "a", "it"}

Analyze(text) ==
    LET lowered == [i \in 1..Len(text) |-> Lowercase(text[i])]
        IsTerm(w) == w \notin ShortWords /\ w \notin StopWords
    IN  SelectSeq(lowered, IsTerm)

TermCount(tokens, t) == Cardinality({i \in DOMAIN tokens : tokens[i] = t})

(***************************************************************************)
(* Smoothed inverse document frequency, in eighths:                        *)
(* IdfTable[n][df] = round(8 * (ln((1+n)/(1+df)) + 1)).                    *)
(***************************************************************************)
IdfTable ==
    << <<8>>,
       <<11, 8>>,
       <<14, 10, 8>>,
       <<15, 12, 10, 8>>,
       <<17, 14, 11, 9, 8>>,
       <<18, 15, 12, 11, 9, 8>>,
       <<19, 16, 14, 12, 10, 9, 8>>,
       <<20, 17, 14, 13, 11, 10, 9, 8>>,
       <<21, 18, 15, 14, 12, 11, 10, 9, 8>> >>

\* the terms of the texts used, in lexicographic order
Lexicon ==
    <<"blockchain", "business", "canvas", "lean", "model", "proposition",
      "startup", "validation", "value">>

\* fit: the vocabulary is the terms of the corpus contents, sorted; the
\* column of a term is its position
FitVocabulary(contents) ==
    LET terms == UNION {Range(Analyze(contents[i])) : i \in DOMAIN contents}
        InCorpus(t) == t \in terms
    IN  SelectSeq(Lexicon, InCorpus)

\* fit: idf weight of every column
FitIdf(contents) ==
    LET n == Len(contents)
        vocab == FitVocabulary(contents)
        df(t) == Cardinality({i \in DOMAIN contents : t \in Range(Analyze(contents[i]))})
    IN  [k \in 1..Len(vocab) |-> IdfTable[n][df(vocab[k])]]

Dot(u, v) == SumTo([k \in 1..Len(u) |-> u[k] * v[k]], Len(u))

\* norm='l2': the row of unit length along w
Normalize(w) == [weights |-> w, norm2 |-> Dot(w, w)]

\* transform: tf * idf over the fitted vocabulary, normalised; a token that is
\* not in the vocabulary is dropped
Transform(vocab, idfw, text) ==
    LET tokens == Analyze(text)
    IN  Normalize(Tabulate([k \in 1..Len(vocab) |->
                               TermCount(tokens, vocab[k]) * idfw[k]],
                           Len(vocab)))

\* variant: the length of the query vector is not divided out
CosineSimilarityRowOnly(u, v) ==
    LET d == Dot(u.weights, v.weights)
        n == v.norm2
        g == GCD(d * d, n)
    IN  IF n = 0 \/ d = 0 THEN ScoreZero ELSE <<(d * d) \div g, n \div g>>

\* cosine_similarity of two rows; a zero row is left as it is by the
\* normalisation and so scores 0
CosineSimilarity(u, v) ==
    LET d == Dot(u.weights, v.weights)
        n == u.norm2 * v.norm2
        g == GCD(d * d, n)
    IN  IF n = 0 \/ d = 0 THEN ScoreZero ELSE <<(d * d) \div g, n \div g>>


(***************************************************************************)
(* Data: domains and corpus.                                               *)
(***************************************************************************)
\* _load_knowledge_domains: the five domains, by id and capabilities
KnowledgeDomains ==
    << [id |-> "business",
        capabilities |-> <<"strategic_advice", "business_modeling",
                           "founder_mentorship", "case_analysis">>],
       [id |-> "finance",
        capabilities |-> <<"financial_analysis", "math_problem_solving",
                           "statistical_reasoning">>],
       [id |-> "tech",
        capabilities |-> <<"code_generation", "architecture_design",
                           "technical_review">>],
       [id |-> "legal",
        capabilities |-> <<"contract_analysis", "legal_risk_assessment",
                           "term_evaluation">>],
       [id |-> "speech",
        capabilities |-> <<"speech_recognition", "audio_processing",
                           "language_detection">>] >>

Repeat(w, n) == [i \in 1..n |-> w]

\* contents of knowledge items
ContentCanvas == <<"Business", "model", "canvas", "value", "proposition">>
ContentLean == <<"Lean", "startup", "validation">>
ContentLong == <<"it", "is", "a", "Canvas", "of">> \o Repeat("lean", 10)
ContentStop == <<"it", "is", "the", "a">>

\* the knowledge items a corpus is loaded from (the id is given by the
\* position in the corpus)
ItemPool ==
    { [content |-> ContentCanvas, domain |-> "business",
       capabilities |-> <<"strategic_advice", "business_modeling">>],
      [content |-> ContentLean, domain |-> "finance",
       capabilities |-> <<"strategic_advice", "founder_mentorship">>],
      [content |-> ContentLong, domain |-> "business",
       capabilities |-> <<"founder_mentorship">>],
      [content |-> ContentStop, domain |-> "tech",
       capabilities |-> <<"strategic_advice">>] }

\* the lists of n items and their repetitions of at most MaxCorpus items
\* (contents that occur more than once, scores that tie), with unique ids
Repetitions(n) ==
    UNION { { [i \in 1..(n * r) |-> [id |-> i] @@ base[((i - 1) % n) + 1]] :
                base \in [1..n -> ItemPool] }
            : r \in 1..(MaxCorpus \div n) }

\* _load_knowledge_corpus: the corpora an engine is built from.  fit raises
\* on an empty vocabulary, so no engine exists for a corpus of stop words only
Corpora ==
    { c \in UNION { Repetitions(n) : n \in 1..MaxBase } :
        FitVocabulary([i \in 1..Len(c) |-> c[i].content]) # <<>> }

(***************************************************************************)
(* Requests.                                                               *)
(***************************************************************************)
JsonStr(text) == [kind |-> "str", words |-> text]
JsonNull == [kind |-> "null", words |-> <<>>]

\* queries that share terms with the contents
MatchingQueries ==
    { JsonStr(ContentCanvas), JsonStr(ContentLean), JsonStr(ContentLong),
      JsonStr(<<"canvas">>) }

\* queries of stop words only, of unknown terms only, empty, and not a string
OtherQueries ==
    { JsonStr(<<"the", "is">>), JsonStr(<<"blockchain">>), JsonStr(<<>>), JsonNull }

\* the domain and capability filters of a request
Filters ==
    { [domains |-> <<>>, capabilities |-> <<>>],
      [domains |-> <<"finance">>, capabilities |-> <<>>],
      [domains |-> <<>>, capabilities |-> <<"business_modeling", "case_analysis">>],
      [domains |-> <<"business", "legal">>, capabilities |-> <<"founder_mentorship">>] }

\* request bodies of POST /api/knowledge/query
Requests ==
    { [query |-> q, domains |-> f.domains, capabilities |-> f.capabilities] :
        q \in MatchingQueries, f \in Filters }
    \cup { [query |-> q, domains |-> <<>>, capabilities |-> <<>>] : q \in OtherQueries }
    \cup { [query |-> JsonStr(<<"canvas">>)] }
    \cup { [domains |-> <<"business">>] }

\* readings of the clock
Timestamps == {"t1", "t2"}

VARIABLES
    corpus,          \* self.corpus
    domains,         \* self.domains
    vocabulary,      \* self.vectorizer: the fitted terms, by column
    idf,             \* self.vectorizer: the fitted idf weight of every column
    content_matrix,  \* self.content_matrix
    argsort_ties,    \* whether the build's argsort keeps equal scores in corpus order
    request,         \* the body of the last request
    status,          \* how the last request ended
    response,        \* what the last request returned
    repeated,        \* the last request has the body of the one before it
    calls            \* per worker thread: the locals of its running call of query

vars == <<corpus, domains, vocabulary, idf, content_matrix, argsort_ties,
          request, status, response, repeated, calls>>

engine == <<corpus, domains, vocabulary, idf, content_matrix>>


\* what the handler served last, when requests are served one at a time
served == <<request, status, response, repeated>>

\* the worker threads of the server: they share the one knowledge_base
Threads == {"w1", "w2"}

\* a thread that runs no call
IdleCall ==
    [pc |-> "idle", query |-> JsonStr(<<>>), domains |-> <<>>, capabilities |-> <<>>,
     query_vector |-> [weights |-> <<>>, norm2 |-> 0],
     similarity_scores |-> <<>>, sorted_indices |-> <<>>, k |-> 0,
     filtered_items |-> <<>>, response |-> [none |-> TRUE]]

(***************************************************************************)
(* EnhancedKnowledgeBase.__init__ and _initialize_vectorizer.              *)
(***************************************************************************)
CorpusContent(c) == [i \in 1..Len(c) |-> c[i].content]

\* variant: the rows of the matrix are in the reverse of the corpus order
FitTransformReversed(contents) ==
    [i \in 1..Len(contents) |->
        Transform(FitVocabulary(contents), FitIdf(contents),
                  contents[Len(contents) + 1 - i])]

\* fit_transform: one row per corpus item, in corpus order
FitTransform(contents) ==
    [i \in 1..Len(contents) |->
        Transform(FitVocabulary(contents), FitIdf(contents), contents[i])]

Init ==
    /\ corpus \in Corpora
    /\ domains = KnowledgeDomains
    /\ vocabulary = FitVocabulary(CorpusContent(corpus))
    /\ idf = FitIdf(CorpusContent(corpus))
    /\ content_matrix = FitTransform(CorpusContent(corpus))
    /\ argsort_ties \in {"kept", "swapped"}
    /\ request = [none |-> TRUE]
    /\ status = "none"
    /\ response = [none |-> TRUE]
    /\ repeated = FALSE
    /\ calls = [t \in Threads |-> IdleCall]

(***************************************************************************)
(* EnhancedKnowledgeBase.query.                                            *)
(***************************************************************************)
\* similarity_scores: the score of the query against every row
SimilarityScores(query_vector) ==
    Tabulate([i \in 1..Len(content_matrix) |->
                 CosineSimilarity(query_vector, content_matrix[i])],
             Len(content_matrix))

\* variant: equal scores are ordered by a value that changes between calls
ArgsortUnsteady(scores) ==
    LET flip == "metadata" \in DOMAIN response /\ response.metadata.timestamp = "t1"
        Before(i, j) ==
            \/ ScoreLess(scores[i], scores[j])
            \/ /\ scores[i] = scores[j]
               /\ IF flip THEN i < j ELSE i > j
        position == Tabulate([i \in DOMAIN scores |->
                                 1 + Cardinality({j \in DOMAIN scores : Before(j, i)})],
                             Len(scores))
    IN  [p \in 1..Len(scores) |-> CHOOSE i \in DOMAIN scores : position[i] = p]

\* similarity_scores.argsort(): indices by ascending score.  The default sort
\* is not a stable one: equal scores keep their corpus order where the build
\* sorts a short array by insertion, and need not elsewhere
Argsort(scores) ==
    LET Before(i, j) ==
            \/ ScoreLess(scores[i], scores[j])
            \/ /\ scores[i] = scores[j]
               /\ IF argsort_ties = "kept" THEN i < j ELSE i > j
        position == Tabulate([i \in DOMAIN scores |->
                                 1 + Cardinality({j \in DOMAIN scores : Before(j, i)})],
                             Len(scores))
    IN  [p \in 1..Len(scores) |-> CHOOSE i \in DOMAIN scores : position[i] = p]

\* variant: the ranking is cut to 5 entries before the loop, so that an entry
\* the loop rejects uses up one of the 5 places
SortedIndicesFirstFive(scores) ==
    LET ranking == Reverse(Argsort(scores))
    IN  SubSeq(ranking, 1, IF Len(ranking) < TopK THEN Len(ranking) ELSE TopK)

\* variant: the [::-1] is left out
SortedIndicesAscending(scores) == Argsort(scores)

\* sorted_indices = similarity_scores.argsort()[::-1]
SortedIndices(scores) == Reverse(Argsort(scores))

\* a list given as a filter is applied when it is not empty
Truthy(list) == Len(list) > 0

\* variant: the domain filter is not applied
DomainPassesAlways(item, doms) == TRUE

DomainPasses(item, doms) == ~Truthy(doms) \/ item.domain \in Range(doms)

CapabilityPasses(item, caps) ==
    ~Truthy(caps) \/ \E k \in DOMAIN caps : caps[k] \in Range(item.capabilities)

\* variant: no copy is made, the score is written to the corpus item
ItemAlias(idx) == idx

\* item.copy(): the object the score is written to; 0 is a new object, a
\* position of the corpus is the corpus item itself
ItemCopy(idx) == 0

\* variant: the loop stops one item early
LimitReachedEarly(filtered) == Len(filtered) >= TopK - 1

\* variant: the loop stops one item late
LimitReachedLate(filtered) == Len(filtered) > TopK

\* "Limit to top 5 results"
LimitReached(filtered) == Len(filtered) >= TopK

\* the loop over sorted_indices: the accepted entries, in order
RECURSIVE FilterLoop(_, _, _, _, _, _)
FilterLoop(sorted, k, scores, doms, caps, filtered) ==
    IF k > Len(sorted) THEN filtered
    ELSE LET idx == sorted[k]
             item == corpus[idx]
             score == scores[idx]
         IN  IF BelowThreshold(score)
               THEN FilterLoop(sorted, k + 1, scores, doms, caps, filtered)
             ELSE IF ~DomainPasses(item, doms)
               THEN FilterLoop(sorted, k + 1, scores, doms, caps, filtered)
             ELSE IF ~CapabilityPasses(item, caps)
               THEN FilterLoop(sorted, k + 1, scores, doms, caps, filtered)
             ELSE LET next == Append(filtered,
                                [idx |-> idx, score |-> score, ref |-> ItemCopy(idx)])
                  IN  IF LimitReached(next) THEN next
                      ELSE FilterLoop(sorted, k + 1, scores, doms, caps, next)

WithScore(item, score) == ("similarity_score" :> score) @@ item

\* the corpus once the scores of the accepted entries are written
CorpusAfter(accepted) ==
    [i \in 1..Len(corpus) |->
        IF \E a \in DOMAIN accepted : accepted[a].ref = i
          THEN LET a == CHOOSE b \in DOMAIN accepted : accepted[b].ref = i
               IN  WithScore(corpus[i], accepted[a].score)
          ELSE corpus[i]]

FilteredItems(accepted) ==
    [a \in 1..Len(accepted) |-> WithScore(corpus[accepted[a].idx], accepted[a].score)]

EngineSources ==
    << [module_id |-> "enhanced-knowledge-base",
        module_type |-> "EnhancedKnowledgeBase",
        version |-> "1.0.0"] >>

\* the entries query accepts for a text query
Accepted(words, doms, caps) ==
    LET query_vector == Transform(vocabulary, idf, words)
        similarity_scores == SimilarityScores(query_vector)
        sorted_indices == SortedIndices(similarity_scores)
    IN  FilterLoop(sorted_indices, 1, similarity_scores, doms, caps, <<>>)

QueryResponse(query, doms, caps, accepted, now) ==
    [items |-> FilteredItems(accepted),
     sources |-> EngineSources,
     metadata |-> [query |-> query, domains |-> doms, capabilities |-> caps,
                   timestamp |-> now]]

(***************************************************************************)
(* app.query_knowledge: POST /api/knowledge/query.                         *)
(***************************************************************************)
Get(data, key, default) == IF key \in DOMAIN data THEN data[key] ELSE default

Recorded(data) ==
    /\ request' = data
    /\ repeated' = (data = request)

\* the body has no query: 400
MissingQuery(data) ==
    /\ "query" \notin DOMAIN data
    /\ status' = "400"
    /\ response' = [error |-> "Missing required parameter: query"]
    /\ Recorded(data)
    /\ UNCHANGED <<engine, argsort_ties, calls>>

\* the query is not a string: transform raises
QueryNotText(data) ==
    /\ "query" \in DOMAIN data
    /\ data.query.kind # "str"
    /\ status' = "AttributeError"
    /\ response' = [error |-> "AttributeError"]
    /\ Recorded(data)
    /\ UNCHANGED <<engine, argsort_ties, calls>>

QueryText(data, now) ==
    /\ "query" \in DOMAIN data
    /\ data.query.kind = "str"
    /\ LET doms == Get(data, "domains", <<>>)
           caps == Get(data, "capabilities", <<>>)
           accepted == Accepted(data.query.words, doms, caps)
       IN  /\ corpus' = CorpusAfter(accepted)
           /\ response' = QueryResponse(data.query, doms, caps, accepted, now)
    /\ status' = "200"
    /\ Recorded(data)
    /\ UNCHANGED <<domains, vocabulary, idf, content_matrix, argsort_ties, calls>>

query_knowledge ==
    \E data \in Requests :
        \/ MissingQuery(data)
        \/ QueryNotText(data)
        \/ \E now \in Timestamps : QueryText(data, now)

Next == query_knowledge

Spec == Init /\ [][Next]_vars

(***************************************************************************)
(* Calls of query that run at the same time: every thread of the server    *)
(* calls knowledge_base.query on the one engine of the process, and a      *)
(* thread can be preempted between any two statements of query.            *)
(***************************************************************************)
\* the request bodies of the calls that overlap
SharedRequests ==
    { r \in Requests :
        /\ "query" \in DOMAIN r
        /\ r.query \in { JsonStr(ContentLean), JsonStr(ContentLong),
                         JsonStr(<<"the", "is">>) }
        /\ Get(r, "domains", <<>>) \in { <<>>, <<"finance">> }
        /\ Get(r, "capabilities", <<>>) = <<>> }

InitShared ==
    /\ Init
    /\ Len(corpus) <= MaxShared

\* the handler calls knowledge_base.query(query, domains, capabilities)
StartQuery(t, data) ==
    /\ calls[t].pc = "idle"
    /\ calls' = [calls EXCEPT ![t] =
                    [IdleCall EXCEPT !.pc = "transform",
                                     !.query = data.query,
                                     !.domains = Get(data, "domains", <<>>),
                                     !.capabilities = Get(data, "capabilities", <<>>)]]
    /\ UNCHANGED <<engine, argsort_ties, served>>

\* query_vector = self.vectorizer.transform([query])
TransformQuery(t) ==
    /\ calls[t].pc = "transform"
    /\ calls' = [calls EXCEPT ![t].pc = "similarity",
                              ![t].query_vector =
                                  Transform(vocabulary, idf, calls[t].query.words)]
    /\ UNCHANGED <<engine, argsort_ties, served>>

\* similarity_scores = cosine_similarity(query_vector, self.content_matrix)
ScoreRows(t) ==
    /\ calls[t].pc = "similarity"
    /\ calls' = [calls EXCEPT ![t].pc = "argsort",
                              ![t].similarity_scores =
                                  SimilarityScores(calls[t].query_vector)]
    /\ UNCHANGED <<engine, argsort_ties, served>>

\* sorted_indices = similarity_scores.argsort()[::-1]; filtered_items = []
SortIndices(t) ==
    /\ calls[t].pc = "argsort"
    /\ LET sorted == SortedIndices(calls[t].similarity_scores)
       IN  calls' = [calls EXCEPT ![t].pc = IF Len(sorted) = 0 THEN "respond" ELSE "loop",
                                  ![t].sorted_indices = sorted,
                                  ![t].k = 1,
                                  ![t].filtered_items = <<>>]
    /\ UNCHANGED <<engine, argsort_ties, served>>

\* one iteration of the loop over sorted_indices
LoopIteration(t) ==
    /\ calls[t].pc = "loop"
    /\ LET c == calls[t]
           idx == c.sorted_indices[c.k]
           item == corpus[idx]
           score == c.similarity_scores[idx]
           skipped == \/ BelowThreshold(score)
                      \/ ~DomainPasses(item, c.domains)
                      \/ ~CapabilityPasses(item, c.capabilities)
           ref == ItemCopy(idx)
           filtered == IF skipped THEN c.filtered_items
                       ELSE Append(c.filtered_items,
                                   [idx |-> idx, score |-> score, ref |-> ref,
                                    item_copy |-> WithScore(item, score)])
           left == (~skipped /\ LimitReached(filtered)) \/ c.k = Len(c.sorted_indices)
       IN  /\ calls' = [calls EXCEPT ![t].pc = IF left THEN "respond" ELSE "loop",
                                      ![t].k = c.k + 1,
                                      ![t].filtered_items = filtered]
           /\ corpus' = IF ~skipped /\ ref # 0
                           THEN [corpus EXCEPT ![ref] = WithScore(item, score)]
                           ELSE corpus
    /\ UNCHANGED <<domains, vocabulary, idf, content_matrix, argsort_ties, served>>

\* the objects of filtered_items, as they are when the response is built
ItemsOf(filtered) ==
    [a \in 1..Len(filtered) |->
        IF filtered[a].ref = 0 THEN filtered[a].item_copy ELSE corpus[filtered[a].ref]]

\* response = {...}; return response
Respond(t, now) ==
    /\ calls[t].pc = "respond"
    /\ calls' = [calls EXCEPT ![t].pc = "done",
                              ![t].response =
                                  [items |-> ItemsOf(calls[t].filtered_items),
                                   sources |-> EngineSources,
                                   metadata |-> [query |-> calls[t].query,
                                                 domains |-> calls[t].domains,
                                                 capabilities |-> calls[t].capabilities,
                                                 timestamp |-> now]]]
    /\ UNCHANGED <<engine, argsort_ties, served>>

\* the handler has sent the response: the thread is free for the next request
SendResponse(t) ==
    /\ calls[t].pc = "done"
    /\ calls' = [calls EXCEPT ![t] = IdleCall]
    /\ UNCHANGED <<engine, argsort_ties, served>>

NextShared ==
    \E t \in Threads :
        \/ \E data \in SharedRequests : StartQuery(t, data)
        \/ TransformQuery(t)
        \/ ScoreRows(t)
        \/ SortIndices(t)
        \/ LoopIteration(t)
        \/ \E now \in Timestamps : Respond(t, now)
        \/ SendResponse(t)

SpecShared == InitShared /\ [][NextShared]_vars


(***************************************************************************)
(* Properties.                                                             *)
(***************************************************************************)
Ok == status = "200"

Items == response.items

ItemIds == {Items[k].id : k \in DOMAIN Items}

\* the last request, as query received it
QueryWords == request.query.words
QueryDomains == Get(request, "domains", <<>>)
QueryCapabilities == Get(request, "capabilities", <<>>)

\* the score of every corpus item for the last request
CorpusScores == SimilarityScores(Transform(vocabulary, idf, QueryWords))

C2_AtMostFiveDistinct ==
    Ok =>
        /\ Len(Items) <= 5
        /\ Len(Items) <= Len(corpus)
        /\ \A k, l \in DOMAIN Items : k # l => Items[k].id # Items[l].id

\* more than 5 corpus items pass the threshold and the filters, 5 are returned
C2_Witness ==
    /\ Ok
    /\ Len(Items) = 5
    /\ Cardinality({i \in DOMAIN corpus :
                       /\ ~BelowThreshold(CorpusScores[i])
                       /\ DomainPasses(corpus[i], QueryDomains)
                       /\ CapabilityPasses(corpus[i], QueryCapabilities)}) > 5

\* C3: of two returned items with equal scores, the one at the lower corpus
\* position comes first.
C3_TiesInCorpusOrder ==
    Ok =>
        \A k, l \in DOMAIN Items :
            (k < l /\ Items[k].similarity_score = Items[l].similarity_score)
                => Items[k].id < Items[l].id

\* C4: a query whose text is empty or is not text is rejected with
\* InvalidQueryError and produces no result list.
C4_EmptyOrNonTextRejected ==
    ("query" \in DOMAIN request
        /\ (request.query.kind # "str" \/ request.query.words = <<>>))
        => (status = "InvalidQueryError" /\ "items" \notin DOMAIN response)

\* C5: every returned item satisfies every non-empty filter, whatever its
\* score; an empty filter excludes nothing: with both filters empty and the
\* limit not reached, every item that passes the threshold is returned.
C5_FiltersRespected ==
    Ok =>
        /\ \A k \in DOMAIN Items :
              /\ QueryDomains # <<>> => Items[k].domain \in Range(QueryDomains)
              /\ QueryCapabilities # <<>> =>
                    Range(Items[k].capabilities) \cap Range(QueryCapabilities) # {}
        /\ (QueryDomains = <<>> /\ QueryCapabilities = <<>> /\ Len(Items) < 5) =>
              \A i \in DOMAIN corpus :
                  ~BelowThreshold(CorpusScores[i]) => i \in ItemIds

\* a domain filter keeps an item and removes one that scores strictly higher
C5_Witness ==
    /\ Ok
    /\ QueryDomains # <<>>
    /\ Len(Items) >= 1
    /\ \E i \in DOMAIN corpus :
          /\ corpus[i].domain \notin Range(QueryDomains)
          /\ ScoreLess(Items[1].similarity_score, CorpusScores[i])


\* the items the last query returns when both filters are empty
UnfilteredIds ==
    LET accepted == Accepted(QueryWords, <<>>, <<>>)
    IN  {accepted[a].idx : a \in DOMAIN accepted}

Filtered == QueryDomains # <<>> \/ QueryCapabilities # <<>>

\* C6: for the same query text and corpus, the items returned with a
\* non-empty filter are among the items returned with both filters empty.
C6_FilteredSubsetOfUnfiltered ==
    (Ok /\ Filtered) => ItemIds \subseteq UnfilteredIds

\* C6, amended: the same, when the query with both filters empty returns
\* fewer than 5 items.
C6_FilteredSubsetBelowLimit ==
    (Ok /\ Filtered /\ Cardinality(UnfilteredIds) < 5) => ItemIds \subseteq UnfilteredIds

\* a filter removes some of the fewer than 5 items and keeps others
C6_Witness ==
    /\ Ok
    /\ Filtered
    /\ Cardinality(UnfilteredIds) < 5
    /\ ItemIds # {}
    /\ ItemIds # UnfilteredIds

\* C7: no query changes the engine: the corpus items and their fields, the
\* matrix, the vocabulary, the idf weights and the domain list stay as the
\* constructor left them.
C7_EngineUnchanged == [][engine' = engine]_vars

\* a second query in a row has returned items with their scores, and the
\* engine is as it was fitted, no corpus item holding a score
C7_Witness ==
    /\ Ok
    /\ repeated
    /\ Len(Items) >= 2
    /\ \A i \in DOMAIN corpus : "similarity_score" \notin DOMAIN corpus[i]
    /\ vocabulary = FitVocabulary(CorpusContent(corpus))
    /\ content_matrix = FitTransform(CorpusContent(corpus))

\* two requests in a row with the same query, filters, and both answered
SameCallTwice == request' = request /\ status = "200" /\ status' = "200"

NoKnownTerm == Range(Analyze(QueryWords)) \cap Range(vocabulary) = {}

\* C9: a text query never raises; one made of stop words only, or of terms
\* outside the vocabulary only, scores 0 against every corpus item and
\* returns an empty list.
C9_NoMatchIsNoFault ==
    /\ ("query" \in DOMAIN request /\ request.query.kind = "str") => Ok
    /\ (Ok /\ NoKnownTerm) =>
          /\ \A i \in DOMAIN corpus : CorpusScores[i] = ScoreZero
          /\ Items = <<>>

\* a query of words that are all stop words or unknown is answered with an
\* empty list
C9_Witness ==
    /\ Ok
    /\ QueryWords # <<>>
    /\ NoKnownTerm
    /\ Items = <<>>

Unfiltered == QueryDomains = <<>> /\ QueryCapabilities = <<>>

C11_ConcurrentAsAlone ==
    /\ \A t \in Threads :
          calls[t].pc = "done" =>
              calls[t].response.items =
                  FilteredItems(Accepted(calls[t].query.words, calls[t].domains,
                                         calls[t].capabilities))
    /\ \A i \in DOMAIN corpus : "similarity_score" \notin DOMAIN corpus[i]

\* one call has returned an item while the other call, of another query, is
\* inside its loop and has accepted the same item with another score
C11_Witness ==
    /\ calls["w1"].pc = "done"
    /\ calls["w2"].pc = "loop"
    /\ calls["w1"].query # calls["w2"].query
    /\ \E a \in DOMAIN calls["w1"].response.items :
       \E b \in DOMAIN calls["w2"].filtered_items :
          /\ calls["w1"].response.items[a].id = calls["w2"].filtered_items[b].idx
          /\ calls["w1"].response.items[a].similarity_score
                 # calls["w2"].filtered_items[b].score

\* the corpus positions that qualify for the last request: a score of at
\* least 0.1, and the non-empty filters passed
Qualifies(i) ==
    /\ ~ScoreLess(CorpusScores[i], <<1, 100>>)
    /\ QueryDomains = <<>> \/ \E d \in DOMAIN QueryDomains : QueryDomains[d] = corpus[i].domain
    /\ \/ QueryCapabilities = <<>>
       \/ \E k \in DOMAIN QueryCapabilities, l \in DOMAIN corpus[i].capabilities :
             QueryCapabilities[k] = corpus[i].capabilities[l]

Qualifying == {i \in DOMAIN corpus : Qualifies(i)}

\* the position of a corpus item in the ranking by descending score
RankOf(i) ==
    LET ranking == Reverse(Argsort(CorpusScores))
    IN  CHOOSE p \in DOMAIN ranking : ranking[p] = i

\* C12: the returned list is the first min(5, number of qualifying items)
\* qualifying items of the ranking by descending score: an item qualifies
\* when its score is at least 0.1 and it passes the non-empty filters, a
\* rejected item takes none of the 5 places, and no qualifying item left out
\* has a strictly higher score than a returned one.
C12_FirstQualifyingOfRanking ==
    Ok =>
        LET ranking == Reverse(Argsort(CorpusScores))
            qualifying == SelectSeq(ranking, Qualifies)
            n == IF Len(qualifying) < 5 THEN Len(qualifying) ELSE 5
        IN  /\ Len(Items) = n
            /\ n = (IF Cardinality(Qualifying) < 5 THEN Cardinality(Qualifying) ELSE 5)
            /\ \A k \in DOMAIN Items :
                  /\ Items[k].id = qualifying[k]
                  /\ Items[k].similarity_score = CorpusScores[qualifying[k]]
            /\ \A i \in Qualifying \ ItemIds :
               \A k \in DOMAIN Items :
                  ~ScoreLess(Items[k].similarity_score, CorpusScores[i])

\* a returned item stands beyond the fifth place of the ranking: rejected
\* items with higher scores stand before it and took none of the 5 places
C12_Witness ==
    /\ Ok
    /\ \E k \in DOMAIN Items : RankOf(Items[k].id) > 5
    /\ \E i \in DOMAIN corpus \ Qualifying :
          ScoreLess(Items[1].similarity_score, CorpusScores[i])

\* C13: corpus position and matrix row are aligned: the matrix has one row
\* for every corpus item, row i being the vector of the content of the item
\* at position i, and the similarity_score of every returned item is the
\* similarity of the query and the content of that same item.
C13_RowsAlignedWithCorpus ==
    /\ Len(content_matrix) = Len(corpus)
    /\ \A i \in DOMAIN corpus :
          /\ corpus[i].id = i
          /\ content_matrix[i] = Transform(vocabulary, idf, corpus[i].content)
    /\ Ok =>
          \A k \in DOMAIN Items :
              /\ Items[k].content = corpus[Items[k].id].content
              /\ Items[k].similarity_score =
                     CosineSimilarity(Transform(vocabulary, idf, QueryWords),
                                      Transform(vocabulary, idf, Items[k].content))

\* two returned items of different scores, in the reverse of their corpus
\* order: the place in the ranking is not the place in the corpus
C13_Witness ==
    /\ Ok
    /\ Len(Items) >= 2
    /\ Items[1].id > Items[2].id
    /\ Items[1].content # Items[2].content
    /\ ScoreLess(Items[2].similarity_score, Items[1].similarity_score)

====
